---- MODULE Spec2Model ----
(***************************************************************************)
(* A model of src/scraper/superbid_monitor.py: the Superbid monitor job.   *)
(*                                                                         *)
(* main() builds a SuperbidMonitor (which builds the Supabase client),     *)
(* run() loads the projections from the store, indexes them by offer_id,   *)
(* scrapes the marketplace category by category, and _process_matches      *)
(* pairs every indexed projection with its live record, assembles one      *)
(* snapshot and one patch per pair and flushes them to the store in        *)
(* batches.                                                                *)
(*                                                                         *)
(* Two specifications share the definitions:                               *)
(*   Spec        the whole job, main() to its return value;                *)
(*   SpecDerive  _create_snapshot and _create_update applied to one        *)
(*               projection and one live record drawn from wide domains.   *)
(*                                                                         *)
(* Units.  An instant is an integer number of 12-second ticks, so that an  *)
(* elapsed time in hours, rounded to 2 decimals as the code does, is the   *)
(* elapsed ticks divided by 3 and rounded to the nearest integer, in       *)
(* hundredths of an hour (a third is never a tie).  A velocity, rounded to *)
(* 4 decimals by the code, is an integer number of ten-thousandths.        *)
(***************************************************************************)
EXTENDS Integers, Sequences, FiniteSets, TLC

(***************************************************************************)
(* Bounds of the model.                                                    *)
(***************************************************************************)
\* rows of superbid_items the store may hold
MaxItems == 3
\* distinct marketplace offer ids
MaxOffer == 3
\* batch_size of _process_matches (50 in the source), scaled down
BatchSize == 2
\* page_size of get_all_active_items (1000 in the source), scaled down
DbPageSize == 2
\* page_size of _scrape_category (100 in the source), scaled down
ApiPageSize == 1
\* the categories scraped (18 in the source), scaled down
NumCategories == 1
\* pages one category scrape may ask for before the remote runs dry
MaxPages == 3
\* snapshots per entity the store may hold before the run
MaxPrior == 1
\* store writes (batch insert, per-entity patch) that may fail in one run
MaxSinkFaults == 1
\* page fetches of the marketplace that may fail in one run of the whole job
MaxScrapeFaults == 1
\* latest instant of the clock, in ticks
MaxClock == 4

(***************************************************************************)
(* Python values.  None is the empty tuple and a defined value a 1-tuple.  *)
(* A JSON scalar of a live record is a record of one shape, so that values *)
(* of different Python types can be compared and stored together.          *)
(***************************************************************************)
None == <<>>

Some(x) == <<x>>

JNull == [k |-> "null", i |-> 0, s |-> ""]

JBool(b) == [k |-> "bool", i |-> IF b THEN 1 ELSE 0, s |-> ""]

JInt(n) == [k |-> "int", i |-> n, s |-> ""]

JStr(str) == [k |-> "str", i |-> 0, s |-> str]

\* str(val) for the scalars of the model
PyStr(v) ==
    CASE v.k = "str" -> v.s
      [] v.k = "bool" -> IF v.i = 1 THEN "True" ELSE "False"
      [] v.k = "int" -> CASE v.i = 0 -> "0" [] v.i = 1 -> "1" [] v.i = 2 -> "2"
                          [] v.i = 3 -> "3" [] v.i = 4 -> "4" [] OTHER -> "5"
      [] OTHER -> "None"

\* str.lower() on the strings of the model
PyLower(str) ==
    CASE str \in {"Sim", "SIM", "sim"} -> "sim"
      [] str \in {"True", "TRUE", "true"} -> "true"
      [] str \in {"Yes", "YES", "yes"} -> "yes"
      [] str \in {"False", "false"} -> "false"
      [] str \in {"Nao", "nao"} -> "nao"
      [] OTHER -> str

\* int(str) : the strings Python parses as an integer, None for a ValueError
PyIntOfStr(str) ==
    CASE str = "0" -> Some(0)
      [] str = "1" -> Some(1)
      [] str = "2" -> Some(2)
      [] str = "3" -> Some(3)
      [] str = " 2 " -> Some(2)
      [] OTHER -> None

\* Python truthiness of a scalar
Truthy(v) ==
    CASE v.k = "null" -> FALSE
      [] v.k = "bool" -> v.i = 1
      [] v.k = "int" -> v.i # 0
      [] OTHER -> v.s # ""

(***************************************************************************)
(* The typed accessors nested in _create_snapshot and _create_update.      *)
(***************************************************************************)
\* safe_int: None and '' give None, a failed int() gives None
safe_int(v) ==
    CASE v.k = "null" -> None
      [] v.k = "str" -> IF v.s = "" THEN None ELSE PyIntOfStr(v.s)
      [] OTHER -> Some(v.i)

\* safe_bool: None is False, a bool is itself, anything else by its token
safe_bool(v) ==
    CASE v.k = "null" -> FALSE
      [] v.k = "bool" -> v.i = 1
      [] OTHER -> PyLower(PyStr(v)) \in {"true", "1", "yes", "sim"}

\* `x or 0` on an optional integer
OrZero(x) == IF x = None THEN 0 ELSE x[1]

\* `x or False` on an optional boolean
OrFalse(x) == IF x = None THEN FALSE ELSE x[1]

\* get('currentWinner.id'): the walk stops with the default at a missing key,
\* at None, and at a value that is not a dict
GetWinnerId(api_data) ==
    IF api_data.currentWinner = "dict" THEN api_data.currentWinnerId ELSE JNull

(***************************************************************************)
(* Temporal features and velocities of _create_snapshot.                   *)
(***************************************************************************)
\* the nearest integer to d / 3 (never a tie): round(ticks / 300, 2) in hundredths
RoundThird(d) == (2 * d + 3) \div 6

\* the nearest integer to num / den for den > 0, ties to even as round() does
RoundRatio(num, den) ==
    LET q == num \div den
        r == num % den
    IN  IF 2 * r < den THEN q
        ELSE IF 2 * r > den THEN q + 1
        ELSE IF q % 2 = 0 THEN q ELSE q + 1

\* the projection's last_scraped_at: None (or ''), an ISO-8601 instant, or a
\* value fromisoformat cannot read
LSNone == [k |-> "none", t |-> 0]

LSTime(t) == [k |-> "ts", t |-> t]

LSBad == [k |-> "bad", t |-> 0]

\* now.isoformat(), as the patch stores it
IsoFormat(now) == LSTime(now)

\* hours_since_last_snapshot, in hundredths of an hour; None when the
\* projection has no last_scraped_at or it does not parse
HoursSinceLastSnapshot(db_item, now) ==
    IF db_item.last_scraped_at.k = "ts"
    THEN Some(RoundThird(now - db_item.last_scraped_at.t))
    ELSE None

\* Velocity without the test of the delta's sign
VelocityOfAnyDelta(delta, hours_since_last_snapshot) ==
    IF hours_since_last_snapshot # None /\ hours_since_last_snapshot[1] # 0
       /\ hours_since_last_snapshot[1] > 0
    THEN Some(RoundRatio(delta * 1000000, hours_since_last_snapshot[1]))
    ELSE None

\* the gate of both velocities: an elapsed time that is defined, not 0.0 and
\* positive, and a delta that is positive; in ten-thousandths per hour
Velocity(delta, hours_since_last_snapshot) ==
    IF hours_since_last_snapshot # None /\ hours_since_last_snapshot[1] # 0
       /\ hours_since_last_snapshot[1] > 0 /\ delta > 0
    THEN Some(RoundRatio(delta * 1000000, hours_since_last_snapshot[1]))
    ELSE None

\* popularity_velocity is assigned from visit_velocity where that is set
PopularityVelocity(visit_velocity) == visit_velocity

\* IsActive without the test of is_sold
IsActiveWhenNotClosed(is_closed, is_sold) == ~is_closed

\* 'is_active': not is_closed and not is_sold
IsActive(is_closed, is_sold) == ~is_closed /\ ~is_sold

\* BidStatusChanged seeing only bids that appear
BidStatusChangedWhenBidsAppear(has_bids, old_has_bids) ==
    has_bids /\ ~old_has_bids

\* bid_status_changed = (has_bids != old_has_bids)
BidStatusChanged(has_bids, old_has_bids) == has_bids # old_has_bids

\* WinnerChanged without the comparison with the projection's leader
WinnerChangedWhenLeaderKnown(current_winner_id, old_winner_id) ==
    current_winner_id # None

\* winner_changed = (current_winner_id != old_winner_id) and
\* current_winner_id is not None
WinnerChanged(current_winner_id, old_winner_id) ==
    current_winner_id # old_winner_id /\ current_winner_id # None

(***************************************************************************)
(* _create_snapshot.  A projection is a row of superbid_items as selected  *)
(* by get_all_active_items; `keys` holds which of id, external_id and      *)
(* offer_id the row carries (the code subscripts these three and reads     *)
(* every other column with .get, for which a missing key and None agree).  *)
(***************************************************************************)
\* db_item['id'] or db_item['external_id'] raises KeyError; the except clause
\* counts an error and returns None
SnapshotRaises(db_item) ==
    "id" \notin db_item.keys \/ "external_id" \notin db_item.keys

CreateSnapshot(db_item, api_data, total_snaps, now) ==
    LET total_bids == OrZero(safe_int(api_data.totalBids))
        total_bidders == OrZero(safe_int(api_data.totalBidders))
        visits == OrZero(safe_int(api_data.visits))
        has_bids == safe_bool(api_data.hasBids)
        current_winner_id == safe_int(GetWinnerId(api_data))
        is_sold == safe_bool(api_data.isSold)
        is_reserved == safe_bool(api_data.isReserved)
        is_closed == safe_bool(api_data.isClosed)
        bid_count_change == total_bids - OrZero(db_item.total_bids)
        bidder_count_change == total_bidders - OrZero(db_item.total_bidders)
        visit_increment == visits - OrZero(db_item.visits)
        hours_since_last_snapshot == HoursSinceLastSnapshot(db_item, now)
        bid_velocity == Velocity(bid_count_change, hours_since_last_snapshot)
        visit_velocity == Velocity(visit_increment, hours_since_last_snapshot)
        old_has_bids == OrFalse(db_item.has_bids)
        old_is_closed == OrFalse(db_item.is_closed)
        old_is_sold == OrFalse(db_item.is_sold)
        status_changed == (is_closed # old_is_closed) \/ (is_sold # old_is_sold)
    IN  IF SnapshotRaises(db_item) THEN None
        ELSE Some([item_id |-> db_item.id,
                   external_id |-> db_item.external_id,
                   snapshot_at |-> IsoFormat(now),
                   total_bids |-> total_bids,
                   total_bidders |-> total_bidders,
                   visits |-> visits,
                   bid_count_change |-> bid_count_change,
                   bidder_count_change |-> bidder_count_change,
                   visit_increment |-> visit_increment,
                   visit_velocity |-> visit_velocity,
                   bid_velocity |-> bid_velocity,
                   popularity_velocity |-> PopularityVelocity(visit_velocity),
                   has_bids |-> has_bids,
                   is_sold |-> is_sold,
                   is_reserved |-> is_reserved,
                   is_closed |-> is_closed,
                   is_active |-> IsActive(is_closed, is_sold),
                   bid_status_changed |-> BidStatusChanged(has_bids, old_has_bids),
                   status_changed |-> status_changed,
                   offer_status_changed |-> status_changed,
                   winner_changed |-> WinnerChanged(current_winner_id,
                                                    db_item.current_winner_id),
                   current_winner_id |-> current_winner_id,
                   hours_since_last_snapshot |-> hours_since_last_snapshot,
                   total_snapshots_count |-> total_snaps + 1])

(***************************************************************************)
(* _create_update.                                                         *)
(***************************************************************************)
\* UpdateRaises failing wherever the snapshot's assembly fails
UpdateRaisesAsSnapshotDoes(db_item) ==
    "id" \notin db_item.keys \/ "external_id" \notin db_item.keys

\* db_item['id'] raises KeyError; the except clause counts an error and
\* returns None
UpdateRaises(db_item) == "id" \notin db_item.keys

CreateUpdate(db_item, api_data, now) ==
    IF UpdateRaises(db_item) THEN None
    ELSE Some([id |-> db_item.id,
               total_bids |-> OrZero(safe_int(api_data.totalBids)),
               total_bidders |-> OrZero(safe_int(api_data.totalBidders)),
               visits |-> OrZero(safe_int(api_data.visits)),
               has_bids |-> safe_bool(api_data.hasBids),
               current_winner_id |-> safe_int(GetWinnerId(api_data)),
               is_sold |-> safe_bool(api_data.isSold),
               is_closed |-> safe_bool(api_data.isClosed),
               is_reserved |-> safe_bool(api_data.isReserved),
               is_active |-> IsActive(safe_bool(api_data.isClosed),
                                      safe_bool(api_data.isSold)),
               last_scraped_at |-> IsoFormat(now)])

\* ApplyPatch adding the patch's total_bids to the row's
ApplyPatchIncrementally(row, update) ==
    [row EXCEPT !.total_bids = Some(OrZero(row.total_bids) + update.total_bids),
                !.total_bidders = Some(update.total_bidders),
                !.visits = Some(update.visits),
                !.has_bids = Some(update.has_bids),
                !.current_winner_id = update.current_winner_id,
                !.is_sold = Some(update.is_sold),
                !.is_closed = Some(update.is_closed),
                !.is_reserved = Some(update.is_reserved),
                !.is_active = Some(update.is_active),
                !.last_scraped_at = update.last_scraped_at]

\* PATCH superbid_items?id=eq.<id> with the patch's columns (its id popped)
ApplyPatch(row, update) ==
    [row EXCEPT !.total_bids = Some(update.total_bids),
                !.total_bidders = Some(update.total_bidders),
                !.visits = Some(update.visits),
                !.has_bids = Some(update.has_bids),
                !.current_winner_id = update.current_winner_id,
                !.is_sold = Some(update.is_sold),
                !.is_closed = Some(update.is_closed),
                !.is_reserved = Some(update.is_reserved),
                !.is_active = Some(update.is_active),
                !.last_scraped_at = update.last_scraped_at]

(***************************************************************************)
(* State.                                                                  *)
(***************************************************************************)
VARIABLES
    \* the environment
    creds,              \* SUPABASE_URL and SUPABASE_KEY are both set
    clock,              \* datetime.now(timezone.utc), in ticks
    store_items,        \* table superbid_items, in id order
    store_monitoring,   \* table superbid_monitoring: snapshots held per item id
    \* main() and run()
    pc,                 \* where the job stands
    rc,                 \* what main() returned, None until it has
    stats,              \* SuperbidMonitor.stats
    \* get_all_active_items
    all_items,          \* the rows loaded so far
    offset,             \* the offset of the next page
    \* run(): the index
    db_items_by_offer_id,   \* the dict, as its (offer_id, row) pairs in order
    \* _fetch_all_categories and _scrape_category
    category,           \* the category being scraped, 1..NumCategories
    all_offers,         \* the dict of every category's offers
    offers,             \* the dict of the category being scraped
    page_num,
    consecutive_errors,
    scrape_budget,      \* page fetches that may still fail (the environment's)
    remote,             \* how the marketplace pages its answers
    \* _process_matches
    processed,          \* entries of the index handled so far
    snapshots,          \* the pending snapshots
    updates,            \* the pending patches
    \* history, for the properties
    load_failed,        \* a page of the load ended in an HTTP error or exception
    sink_faults,        \* store writes rejected so far
    assembled_snapshots,    \* every snapshot _create_snapshot returned
    assembled_updates,      \* every patch _create_update returned
    sent_snapshots,     \* every list handed to insert_snapshots_batch, joined
    sent_updates,       \* every list handed to update_base_items_batch, joined
    prior_snapshots,    \* store_monitoring as the run found it
    \* _create_snapshot and _create_update on their own (SpecDerive)
    db_item, api_data, snapshot, update

vars == <<creds, clock, store_items, store_monitoring, pc, rc, stats, all_items,
          offset, db_items_by_offer_id, category, all_offers, offers, page_num,
          consecutive_errors, scrape_budget, remote, processed, snapshots, updates, load_failed,
          sink_faults, assembled_snapshots, assembled_updates, sent_snapshots,
          sent_updates, prior_snapshots, db_item, api_data, snapshot, update>>

envVars == <<creds, clock>>

storeVars == <<store_items, store_monitoring, sink_faults>>

loadVars == <<all_items, offset, load_failed>>

scrapeVars == <<category, all_offers, offers, page_num, consecutive_errors,
                scrape_budget, remote>>

matchVars == <<processed, snapshots, updates, assembled_snapshots,
               assembled_updates, sent_snapshots, sent_updates>>

deriveVars == <<db_item, api_data, snapshot, update>>

(***************************************************************************)
(* The inputs of the whole job.                                            *)
(***************************************************************************)
ItemIds == 1 .. MaxItems

Range(seq) == {seq[k] : k \in 1 .. Len(seq)}

OfferIds == 1 .. MaxOffer

\* a row of superbid_items that get_all_active_items may return: active and
\* not closed (the query's filter), never observed before
Row(keys, id, offer_id) ==
    [keys |-> keys, id |-> id, external_id |-> id, offer_id |-> offer_id,
     total_bids |-> Some(1), total_bidders |-> Some(0), visits |-> Some(0),
     has_bids |-> Some(FALSE), current_winner_id |-> None,
     is_sold |-> Some(FALSE), is_closed |-> Some(FALSE),
     is_reserved |-> Some(FALSE), is_active |-> Some(TRUE),
     last_scraped_at |-> LSNone]

AllKeys == {"id", "external_id", "offer_id"}

\* the rows of the job's runs: whole, without external_id, without offer_id
RowKinds ==
    {<<AllKeys, o>> : o \in OfferIds}
    \cup {<<AllKeys \ {"external_id"}, o>> : o \in OfferIds}
    \cup {<<AllKeys \ {"offer_id"}, 0>>}

\* A live record as the marketplace lists it: the fields the snapshot's
\* counters, flags and leader are read from.  currentWinner is "absent", a
\* "scalar" (not a dict) or a "dict" holding currentWinnerId under 'id'.
\* A listing nobody has bid on, every optional field absent:
QuietOffer(id) ==
    [id |-> id, totalBids |-> JNull, totalBidders |-> JNull, visits |-> JNull,
     hasBids |-> JNull, isSold |-> JNull, isClosed |-> JNull,
     isReserved |-> JNull, currentWinner |-> "absent", currentWinnerId |-> JNull]

\* a listing that got bids and was closed, its booleans as localized tokens
BusyOffer(id) ==
    [id |-> id, totalBids |-> JInt(2), totalBidders |-> JStr("1"),
     visits |-> JInt(3), hasBids |-> JStr("Sim"), isSold |-> JNull,
     isClosed |-> JStr("sim"), isReserved |-> JBool(FALSE),
     currentWinner |-> "dict", currentWinnerId |-> JInt(2)]

\* the offers one page of the marketplace may list
PageOffers ==
    {QuietOffer(JNull)}
    \cup {QuietOffer(JInt(o)) : o \in OfferIds}
    \cup {BusyOffer(JInt(o)) : o \in OfferIds}

\* Offer ids only ever meet in equality tests and as dict keys, so the tables
\* are drawn up to a renaming of the ids: each row's offer id is one an
\* earlier row has, or the least one none has.
FirstUseOrder(kinds) ==
    \A i \in DOMAIN kinds :
        kinds[i][2] # 0 =>
            \A o \in 1 .. kinds[i][2] - 1 : \E j \in 1 .. i - 1 : kinds[j][2] = o

\* The marketplace's answers to the paging requests.  A "paged" remote
\* reports each page's own offset: start = (pageNumber - 1) * pageSize.  An
\* "unpaged" remote's answers carry no 'start', which the scraper reads as 0,
\* and do not depend on the page asked for.  Both report a finite total and
\* no 'limit' other than the page size.
Remotes == {"paged", "unpaged"}

ZeroStats ==
    [items_in_db |-> 0, items_scraped |-> 0, items_matched |-> 0,
     items_not_matched |-> 0, snapshots_created |-> 0, items_updated |-> 0,
     bid_changes |-> 0, status_changes |-> 0, errors |-> 0]

\* an empty dict
EmptyDict == [x \in {} |-> None]

InitProgram ==
    /\ rc = None
    /\ stats = ZeroStats
    /\ all_items = <<>>
    /\ offset = 0
    /\ db_items_by_offer_id = <<>>
    /\ category = 1
    /\ all_offers = EmptyDict
    /\ offers = EmptyDict
    /\ page_num = 1
    /\ consecutive_errors = 0
    /\ processed = 0
    /\ snapshots = <<>>
    /\ updates = <<>>
    /\ load_failed = FALSE
    /\ sink_faults = 0
    /\ assembled_snapshots = <<>>
    /\ assembled_updates = <<>>
    /\ sent_snapshots = <<>>
    /\ sent_updates = <<>>

Init ==
    /\ creds \in BOOLEAN
    /\ clock = 1
    /\ \E n \in 0 .. MaxItems :
         \E kinds \in [1 .. n -> RowKinds] :
            /\ FirstUseOrder(kinds)
            /\ store_items = [i \in 1 .. n |-> Row(kinds[i][1], i, kinds[i][2])]
    /\ store_monitoring = [i \in ItemIds |-> 0]
    /\ prior_snapshots = store_monitoring
    /\ scrape_budget = MaxScrapeFaults
    /\ remote \in Remotes
    /\ pc = "main"
    /\ InitProgram
    /\ db_item = None /\ api_data = None /\ snapshot = None /\ update = None

(***************************************************************************)
(* main() and SuperbidMonitor.__init__ / SupabaseSuperbidMonitor.__init__. *)
(***************************************************************************)
\* Without both credentials the client's constructor raises ValueError, which
\* main() catches: it returns 1.
Construct ==
    /\ pc = "main"
    /\ IF creds
       THEN pc' = "load" /\ rc' = rc
       ELSE pc' = "done" /\ rc' = Some(1)
    /\ UNCHANGED <<envVars, storeVars, stats, loadVars, db_items_by_offer_id,
                   scrapeVars, matchVars, prior_snapshots, deriveVars>>

(***************************************************************************)
(* get_all_active_items: one turn of its while loop per step.              *)
(***************************************************************************)
Min(a, b) == IF a < b THEN a ELSE b

\* is_active=eq.true, is_closed=eq.false, order=id.asc
IsSelected(row) == row.is_active = Some(TRUE) /\ row.is_closed = Some(FALSE)

Selected(rows) == SelectSeq(rows, IsSelected)

\* limit=<size>, offset=<off>
Page(rows, off, size) == SubSeq(rows, off + 1, Min(off + size, Len(rows)))

\* status 200: an empty page ends the loop, a short page is the last one
LoadPageOk ==
    /\ pc = "load"
    /\ LET items == Page(Selected(store_items), offset, DbPageSize)
       IN  IF items = <<>>
           THEN pc' = "loaded" /\ UNCHANGED <<all_items, offset>>
           ELSE /\ all_items' = all_items \o items
                /\ IF Len(items) < DbPageSize
                   THEN pc' = "loaded" /\ offset' = offset
                   ELSE pc' = "load" /\ offset' = offset + DbPageSize
    /\ UNCHANGED <<envVars, storeVars, rc, stats, load_failed,
                   db_items_by_offer_id, scrapeVars, matchVars,
                   prior_snapshots, deriveVars>>

\* another status, or an exception of the request: the loop ends and the rows
\* loaded so far are returned
LoadPageFails ==
    /\ pc = "load"
    /\ \E cause \in {"http_status", "exception"} :
          /\ pc' = "loaded"
          /\ load_failed' = TRUE
    /\ UNCHANGED <<envVars, storeVars, rc, stats, all_items, offset,
                   db_items_by_offer_id, scrapeVars, matchVars,
                   prior_snapshots, deriveVars>>

(***************************************************************************)
(* run(): the index by offer_id.                                           *)
(***************************************************************************)
\* d[key] = val on a dict kept as its pairs in insertion order
DictPut(pairs, key, val) ==
    IF \E k \in 1 .. Len(pairs) : pairs[k][1] = key
    THEN [k \in 1 .. Len(pairs) |->
            IF pairs[k][1] = key THEN <<key, val>> ELSE pairs[k]]
    ELSE Append(pairs, <<key, val>>)

\* the rows before the first one whose item['offer_id'] raises KeyError
IndexableItems(items) ==
    IF \E k \in 1 .. Len(items) : "offer_id" \notin items[k].keys
    THEN SubSeq(items, 1,
                (CHOOSE k \in 1 .. Len(items) :
                    /\ "offer_id" \notin items[k].keys
                    /\ \A j \in 1 .. k - 1 : "offer_id" \in items[j].keys) - 1)
    ELSE items

RECURSIVE BuildIndex(_)
\* self.db_items_by_offer_id[offer_id] = item, for each item in turn
BuildIndex(items) ==
    IF items = <<>> THEN <<>>
    ELSE LET item == items[Len(items)]
         IN  DictPut(BuildIndex(SubSeq(items, 1, Len(items) - 1)),
                     item.offer_id, item)

\* `if not db_items: return 0`, then items_in_db and the indexing loop; a row
\* without offer_id raises KeyError out of run(), and main() returns 1
IndexItems ==
    /\ pc = "loaded"
    /\ IF all_items = <<>>
       THEN /\ pc' = "done" /\ rc' = Some(0)
            /\ UNCHANGED <<stats, db_items_by_offer_id>>
       ELSE /\ stats' = [stats EXCEPT !.items_in_db = Len(all_items)]
            /\ db_items_by_offer_id' = BuildIndex(IndexableItems(all_items))
            /\ IF IndexableItems(all_items) # all_items
               THEN pc' = "done" /\ rc' = Some(1)
               ELSE pc' = "scrape" /\ rc' = rc
    /\ UNCHANGED <<envVars, storeVars, loadVars, scrapeVars, matchVars,
                   prior_snapshots, deriveVars>>

(***************************************************************************)
(* _fetch_all_categories and _scrape_category: one turn of the paging loop *)
(* per step.  A dict keyed by offer id is a function on the ids it holds.  *)
(***************************************************************************)
max_errors == 3

\* d[key] = val
DictSet(d, key, val) ==
    [x \in DOMAIN d \cup {key} |-> IF x = key THEN val ELSE d[x]]

\* for key, val in src.items(): dst[key] = val
DictMerge(dst, src) ==
    [x \in DOMAIN dst \cup DOMAIN src |-> IF x \in DOMAIN src THEN src[x] ELSE dst[x]]

RECURSIVE StoreOffers(_, _)
\* for offer in api_offers: keep it under its id when the id is truthy
StoreOffers(d, listed) ==
    IF listed = <<>> THEN d
    ELSE LET offer == listed[1]
         IN  StoreOffers(IF Truthy(offer.id) THEN DictSet(d, offer.id.i, offer) ELSE d,
                         Tail(listed))

\* the pages the marketplace may answer with: 1..ApiPageSize offers
Listings == UNION {[1 .. n -> PageOffers] : n \in 1 .. ApiPageSize}

\* the `total` the marketplace may report
Totals == 0 .. MaxPages * ApiPageSize

\* the paging loop of a category has ended (its locals are gone): its offers
\* go into all_offers and the next category starts, or _fetch_all_categories
\* returns
EndCategory(found) ==
    /\ all_offers' = DictMerge(all_offers, found)
    /\ offers' = EmptyDict
    /\ page_num' = 1
    /\ consecutive_errors' = 0
    /\ IF category < NumCategories
       THEN category' = category + 1 /\ pc' = "scrape"
       ELSE category' = category /\ pc' = "fetched"

\* a failed page: the loop ends at max_errors failures in a row, and moves
\* to the next page otherwise
PageFailed ==
    /\ scrape_budget > 0
    /\ scrape_budget' = scrape_budget - 1
    /\ remote' = remote
    /\ IF consecutive_errors + 1 >= max_errors
       THEN EndCategory(offers)
       ELSE /\ consecutive_errors' = consecutive_errors + 1
            /\ page_num' = page_num + 1
            /\ pc' = "scrape"
            /\ UNCHANGED <<category, all_offers, offers>>

\* response.status_code != 200
ScrapeHttpError ==
    /\ pc = "scrape"
    /\ PageFailed
    /\ UNCHANGED <<envVars, storeVars, rc, stats, loadVars,
                   db_items_by_offer_id, matchVars, prior_snapshots, deriveVars>>

\* the request, or reading its body, raises: counted in stats['errors'] too
ScrapeException ==
    /\ pc = "scrape"
    /\ PageFailed
    /\ stats' = [stats EXCEPT !.errors = @ + 1]
    /\ UNCHANGED <<envVars, storeVars, rc, loadVars, db_items_by_offer_id,
                   matchVars, prior_snapshots, deriveVars>>

\* status 200 and no offers: the loop ends
ScrapeEmptyPage ==
    /\ pc = "scrape"
    /\ EndCategory(offers)
    /\ UNCHANGED <<scrape_budget, remote>>
    /\ UNCHANGED <<envVars, storeVars, rc, stats, loadVars,
                   db_items_by_offer_id, matchVars, prior_snapshots, deriveVars>>

\* data.get('start', 0)
ResponseStart ==
    IF remote = "paged" THEN (page_num - 1) * ApiPageSize ELSE 0

\* page_num += 1 after a page of offers.  The answers of an unpaged remote do
\* not depend on the page number, so on this path the page numbers from
\* MaxPages on are kept as one value.
PageAfterOffers ==
    IF remote = "unpaged" /\ page_num >= MaxPages THEN page_num ELSE page_num + 1

\* status 200 with offers: the failure count is reset, the offers are kept,
\* and the loop ends when start + limit >= total
ScrapeOffers ==
    /\ pc = "scrape"
    /\ UNCHANGED <<scrape_budget, remote>>
    /\ \E listed \in Listings, total \in Totals :
          LET start == ResponseStart
              limit == ApiPageSize
              found == StoreOffers(offers, listed)
          IN  IF start + limit >= total
              THEN EndCategory(found)
              ELSE /\ offers' = found
                   /\ consecutive_errors' = 0
                   /\ page_num' = PageAfterOffers
                   /\ pc' = "scrape"
                   /\ UNCHANGED <<category, all_offers>>
    /\ UNCHANGED <<envVars, storeVars, rc, stats, loadVars,
                   db_items_by_offer_id, matchVars, prior_snapshots, deriveVars>>

\* run(): `if not api_offers: return 0`, else items_scraped and on to the
\* matches
AfterFetch ==
    /\ pc = "fetched"
    /\ IF DOMAIN all_offers = {}
       THEN pc' = "done" /\ rc' = Some(0) /\ stats' = stats
       ELSE /\ pc' = "process" /\ rc' = rc
            /\ stats' = [stats EXCEPT !.items_scraped = Cardinality(DOMAIN all_offers)]
    /\ UNCHANGED <<envVars, storeVars, loadVars, db_items_by_offer_id,
                   scrapeVars, matchVars, prior_snapshots, deriveVars>>

(***************************************************************************)
(* _flush_batch, insert_snapshots_batch and update_base_items_batch.       *)
(***************************************************************************)
\* how the store may answer the batch insert, and each PATCH in turn
InsertOutcomes == {"ok", "rejected", "exception"}

PatchOutcomes(n) == [1 .. n -> {"ok", "rejected", "exception"}]

\* the PATCH requests made: the loop is inside the try, so the first
\* exception ends it
Attempted(upds, po) ==
    IF \E k \in 1 .. Len(upds) : po[k] = "exception"
    THEN CHOOSE k \in 1 .. Len(upds) :
            /\ po[k] = "exception"
            /\ \A j \in 1 .. k - 1 : po[j] # "exception"
    ELSE Len(upds)

\* the patches the store applied (status 200 or 204)
Applied(upds, po) == {k \in 1 .. Attempted(upds, po) : po[k] = "ok"}

\* insert_snapshots_batch: len(snapshots) on 200/201, else 0
Inserted(snaps, ins) == IF snaps # <<>> /\ ins = "ok" THEN Len(snaps) ELSE 0

\* store writes of one flush that failed
FlushFaults(snaps, upds, ins, po) ==
    (IF snaps # <<>> /\ ins # "ok" THEN 1 ELSE 0)
    + Cardinality({k \in 1 .. Attempted(upds, po) : po[k] # "ok"})

\* an answer not read (no insert is made for an empty list, no PATCH after an
\* exception) is taken as "ok", so that each behaviour of the store is drawn once
Canonical(snaps, upds, ins, po) ==
    /\ snaps = <<>> => ins = "ok"
    /\ \A k \in 1 .. Len(upds) : k > Attempted(upds, po) => po[k] = "ok"

\* PatchesSent holding the patches back when the insert was not accepted
PatchesSentAfterInsert(pending, ins) == IF ins = "ok" THEN pending ELSE <<>>

\* the list _flush_batch hands to update_base_items_batch: `if updates:`,
\* whatever insert_snapshots_batch returned
PatchesSent(pending, ins) == pending

\* _flush_batch(snaps, pending) from the counters st; stats['errors'] is
\* touched neither by it nor by the two client methods
FlushBatch(snaps, pending, st, ins, po) ==
    LET upds == PatchesSent(pending, ins) IN
    /\ Canonical(snaps, upds, ins, po)
    /\ sink_faults + FlushFaults(snaps, upds, ins, po) <= MaxSinkFaults
    /\ sink_faults' = sink_faults + FlushFaults(snaps, upds, ins, po)
    /\ stats' = [st EXCEPT
                    !.snapshots_created = @ + Inserted(snaps, ins),
                    !.items_updated = @ + Cardinality(Applied(upds, po))]
    /\ store_monitoring' =
          [i \in ItemIds |->
             store_monitoring[i]
             + IF Inserted(snaps, ins) > 0
               THEN Cardinality({k \in 1 .. Len(snaps) : snaps[k].item_id = i})
               ELSE 0]
    /\ store_items' =
          [i \in 1 .. Len(store_items) |->
             IF \E k \in Applied(upds, po) : upds[k].id = store_items[i].id
             THEN ApplyPatch(store_items[i],
                             upds[CHOOSE k \in Applied(upds, po) :
                                     upds[k].id = store_items[i].id])
             ELSE store_items[i]]
    /\ sent_snapshots' = sent_snapshots \o snaps
    /\ sent_updates' = sent_updates \o upds

(***************************************************************************)
(* _process_matches: one entry of the index per step, the flush it         *)
(* triggers included.                                                      *)
(***************************************************************************)
\* total_snaps = 0 (the count_snapshots call is commented out)
TotalSnaps(item, monitoring) == 0

\* `if len(snapshots) >= batch_size`
FlushDue(snaps, upds) == Len(snaps) >= BatchSize

\* FinalFlushDue looking at the snapshots alone
FinalFlushDueForSnapshots(snaps, upds) == snaps # <<>>

\* `if snapshots or updates` after the loop
FinalFlushDue(snaps, upds) == snaps # <<>> \/ upds # <<>>

\* the lists after a flush in the loop
AfterFlush(pending) == <<>>

\* api_offers.get(offer_id) is a record: a stored offer has a truthy id, so
\* it is never an empty dict
IsMatched(offer_id) == offer_id \in DOMAIN all_offers

\* UnmatchedStats counting the projection as matched too
UnmatchedStatsCountingMatch(st) ==
    [st EXCEPT !.items_not_matched = @ + 1, !.items_matched = @ + 1]

\* self.stats['items_not_matched'] += 1
UnmatchedStats(st) == [st EXCEPT !.items_not_matched = @ + 1]

\* `if not api_data`: counted, and `continue` skips the rest of the loop body
ProcessUnmatched ==
    /\ pc = "process"
    /\ processed < Len(db_items_by_offer_id)
    /\ ~IsMatched(db_items_by_offer_id[processed + 1][1])
    /\ processed' = processed + 1
    /\ stats' = UnmatchedStats(stats)
    /\ UNCHANGED <<envVars, storeVars, pc, rc, loadVars, db_items_by_offer_id,
                   scrapeVars, snapshots, updates, assembled_snapshots,
                   assembled_updates, sent_snapshots, sent_updates,
                   prior_snapshots, deriveVars>>

ProcessMatched ==
    /\ pc = "process"
    /\ processed < Len(db_items_by_offer_id)
    /\ IsMatched(db_items_by_offer_id[processed + 1][1])
    /\ LET item == db_items_by_offer_id[processed + 1][2]
           live == all_offers[db_items_by_offer_id[processed + 1][1]]
           snap == CreateSnapshot(item, live, TotalSnaps(item, store_monitoring), clock)
           upd == CreateUpdate(item, live, clock)
           snaps == IF snap # None THEN Append(snapshots, snap[1]) ELSE snapshots
           upds == IF upd # None THEN Append(updates, upd[1]) ELSE updates
           st == [stats EXCEPT
                    !.items_matched = @ + 1,
                    !.bid_changes = @ + IF snap # None /\ snap[1].bid_status_changed
                                        THEN 1 ELSE 0,
                    !.status_changes = @ + IF snap # None /\ snap[1].status_changed
                                           THEN 1 ELSE 0,
                    !.errors = @ + (IF snap = None THEN 1 ELSE 0)
                                 + (IF upd = None THEN 1 ELSE 0)]
       IN  /\ processed' = processed + 1
           /\ assembled_snapshots' = assembled_snapshots
                                        \o (IF snap # None THEN snap ELSE <<>>)
           /\ assembled_updates' = assembled_updates
                                        \o (IF upd # None THEN upd ELSE <<>>)
           /\ IF FlushDue(snaps, upds)
              THEN /\ \E ins \in InsertOutcomes, po \in PatchOutcomes(Len(upds)) :
                        FlushBatch(snaps, upds, st, ins, po)
                   /\ snapshots' = AfterFlush(snaps)
                   /\ updates' = AfterFlush(upds)
              ELSE /\ snapshots' = snaps
                   /\ updates' = upds
                   /\ stats' = st
                   /\ UNCHANGED <<storeVars, sent_snapshots, sent_updates>>
    /\ UNCHANGED <<envVars, pc, rc, loadVars, db_items_by_offer_id, scrapeVars,
                   prior_snapshots, deriveVars>>

\* the flush after the loop; _process_matches returns, and run() prints the
\* statistics and returns 0
FinalFlush ==
    /\ pc = "process"
    /\ processed = Len(db_items_by_offer_id)
    /\ IF FinalFlushDue(snapshots, updates)
       THEN \E ins \in InsertOutcomes, po \in PatchOutcomes(Len(updates)) :
               FlushBatch(snapshots, updates, stats, ins, po)
       ELSE UNCHANGED <<storeVars, stats, sent_snapshots, sent_updates>>
    /\ pc' = "done"
    /\ rc' = Some(0)
    /\ UNCHANGED <<envVars, loadVars, db_items_by_offer_id, scrapeVars,
                   processed, snapshots, updates, assembled_snapshots,
                   assembled_updates, prior_snapshots, deriveVars>>

Next ==
    \/ Construct
    \/ LoadPageOk
    \/ LoadPageFails
    \/ IndexItems
    \/ ScrapeHttpError
    \/ ScrapeException
    \/ ScrapeEmptyPage
    \/ ScrapeOffers
    \/ AfterFetch
    \/ ProcessUnmatched
    \/ ProcessMatched
    \/ FinalFlush

Spec == Init /\ [][Next]_vars

(***************************************************************************)
(* SpecMatch: _process_matches on its own, from the states run() calls it  *)
(* in.  The index holds rows with distinct offer ids, each carrying id and *)
(* offer_id (run() has subscripted the latter); api_offers is a non-empty  *)
(* dict of offers kept under their own truthy ids; stats['errors'] counts  *)
(* the page fetches that raised.  Ids are drawn up to renaming.            *)
(***************************************************************************)
\* the dicts _fetch_all_categories may return to a run() that goes on
OfferDicts ==
    UNION {[ids -> {"quiet", "busy"}] : ids \in (SUBSET OfferIds) \ {{}}}

OfferDict(bodies) ==
    [o \in DOMAIN bodies |->
        IF bodies[o] = "quiet" THEN QuietOffer(JInt(o)) ELSE BusyOffer(JInt(o))]

InitMatch ==
    /\ creds = TRUE
    /\ clock = 1
    /\ \E n \in 1 .. MaxItems :
         \E keysets \in [1 .. n -> {AllKeys, AllKeys \ {"external_id"}}] :
            /\ store_items = [i \in 1 .. n |-> Row(keysets[i], i, i)]
            /\ all_items = store_items
            /\ db_items_by_offer_id = BuildIndex(all_items)
    /\ \E bodies \in OfferDicts : all_offers = OfferDict(bodies)
    /\ \E raised \in 0 .. MaxScrapeFaults :
         stats = [ZeroStats EXCEPT !.items_in_db = Len(all_items),
                                   !.items_scraped = Cardinality(DOMAIN all_offers),
                                   !.errors = raised]
    /\ store_monitoring = [i \in ItemIds |-> 0]
    /\ prior_snapshots = store_monitoring
    /\ rc = None
    /\ offset = 0
    /\ category = NumCategories
    /\ offers = EmptyDict
    /\ page_num = 1
    /\ consecutive_errors = 0
    /\ scrape_budget = 0
    /\ remote = "paged"
    /\ processed = 0
    /\ snapshots = <<>>
    /\ updates = <<>>
    /\ load_failed = FALSE
    /\ sink_faults = 0
    /\ assembled_snapshots = <<>>
    /\ assembled_updates = <<>>
    /\ sent_snapshots = <<>>
    /\ sent_updates = <<>>
    /\ pc = "process"
    /\ db_item = None /\ api_data = None /\ snapshot = None /\ update = None

NextMatch ==
    \/ ProcessUnmatched
    \/ ProcessMatched
    \/ FinalFlush

SpecMatch == InitMatch /\ [][NextMatch]_vars

\* What InitMatch assumes of the call, as an invariant of the whole job: at
\* the call of _process_matches the index has distinct keys, each row under
\* its own offer_id and carrying id, the live records are kept under their
\* own ids, nothing is pending, and the errors are the fetches that raised.
CallOfProcessMatches ==
    (pc = "process" /\ processed = 0) =>
        /\ \A j, k \in 1 .. Len(db_items_by_offer_id) :
              /\ db_items_by_offer_id[k][2].offer_id = db_items_by_offer_id[k][1]
              /\ {"id", "offer_id"} \subseteq db_items_by_offer_id[k][2].keys
              /\ db_items_by_offer_id[k][2] \in Range(store_items)
              /\ j # k => db_items_by_offer_id[j][1] # db_items_by_offer_id[k][1]
              /\ j # k => db_items_by_offer_id[j][2].id # db_items_by_offer_id[k][2].id
        /\ Len(db_items_by_offer_id) >= 1
        /\ DOMAIN all_offers # {}
        /\ \A o \in DOMAIN all_offers :
              all_offers[o] \in {QuietOffer(JInt(o)), BusyOffer(JInt(o))}
        /\ stats.errors \in 0 .. MaxScrapeFaults
        /\ stats = [ZeroStats EXCEPT !.items_in_db = Len(all_items),
                                     !.items_scraped = Cardinality(DOMAIN all_offers),
                                     !.errors = stats.errors]
        /\ snapshots = <<>> /\ updates = <<>> /\ sink_faults = 0
        /\ sent_snapshots = <<>> /\ sent_updates = <<>>
        /\ assembled_snapshots = <<>> /\ assembled_updates = <<>>

(***************************************************************************)
(* SpecDerive: one projection and one live record, reconciled on their     *)
(* own.  The inputs are drawn group by group (the counters and the clock,  *)
(* the booleans, the leader and the row's keys), each group over a wide    *)
(* domain with the other groups at a fixed value: _create_snapshot and     *)
(* _create_update compute each group of fields from that group's inputs.   *)
(***************************************************************************)
BaseRow == Row(AllKeys, 1, 1)

BaseOffer == QuietOffer(JInt(1))

\* the counters of both sides, the last refresh and the clock
CounterInputs ==
    /\ \E tb \in {None, Some(0), Some(1), Some(3)},
          vs \in {None, Some(1), Some(4)},
          ls \in {LSNone, LSBad, LSTime(0), LSTime(2), LSTime(MaxClock + 1)} :
          db_item = [BaseRow EXCEPT !.total_bids = tb, !.visits = vs,
                                    !.total_bidders = Some(1),
                                    !.last_scraped_at = ls]
    /\ \E tb \in {JNull, JInt(0), JInt(2), JStr("3"), JStr("abc"), JStr("")},
          vs \in {JNull, JInt(3)} :
          api_data = [BaseOffer EXCEPT !.totalBids = tb, !.visits = vs,
                                       !.totalBidders = JStr(" 2 ")]
    /\ clock \in 0 .. MaxClock
    /\ store_monitoring = [i \in ItemIds |-> 0]

\* the booleans of both sides
FlagInputs ==
    /\ \E hb \in {None, Some(TRUE), Some(FALSE)},
          sold \in {None, Some(TRUE), Some(FALSE)} :
          db_item = [BaseRow EXCEPT !.has_bids = hb, !.is_sold = sold]
    /\ \E hb \in {JNull, JBool(TRUE), JBool(FALSE), JStr("Sim"), JStr("nao"),
                   JStr("TRUE"), JInt(1), JInt(0)},
          closed \in {JNull, JBool(TRUE), JStr("sim"), JStr("false")},
          sold \in {JNull, JBool(TRUE), JStr("Sim"), JInt(2)},
          reserved \in {JNull, JStr("yes")} :
          api_data = [BaseOffer EXCEPT !.hasBids = hb, !.isClosed = closed,
                                       !.isSold = sold, !.isReserved = reserved]
    /\ clock = 1
    /\ store_monitoring = [i \in ItemIds |-> 0]

\* the current leader of both sides, the keys of the row, and the snapshots
\* the store already holds
LeaderInputs ==
    /\ \E keys \in SUBSET {"id", "external_id"},
          winner \in {None, Some(2), Some(3)} :
          db_item = [BaseRow EXCEPT !.keys = keys \cup {"offer_id"},
                                    !.current_winner_id = winner]
    /\ \E cw \in {"absent", "scalar", "dict"},
          id \in {JNull, JInt(2), JStr("3"), JStr("x")} :
          /\ cw # "dict" => id = JNull
          /\ api_data = [BaseOffer EXCEPT !.currentWinner = cw,
                                          !.currentWinnerId = id]
    /\ clock = 1
    /\ \E k \in 0 .. MaxPrior : store_monitoring = [i \in ItemIds |-> k]

InitDerive ==
    /\ creds = TRUE
    /\ store_items = <<>>
    /\ scrape_budget = 0
    /\ remote = "paged"
    /\ pc = "pair"
    /\ InitProgram
    /\ snapshot = None /\ update = None
    /\ (CounterInputs \/ FlagInputs \/ LeaderInputs)
    /\ prior_snapshots = store_monitoring

\* _process_matches on the pair: the snapshot, then the patch
Reconcile ==
    /\ pc = "pair"
    /\ snapshot' = CreateSnapshot(db_item, api_data,
                                  TotalSnaps(db_item, store_monitoring), clock)
    /\ update' = CreateUpdate(db_item, api_data, clock)
    /\ pc' = "reconciled"
    /\ UNCHANGED <<envVars, storeVars, rc, stats, loadVars,
                   db_items_by_offer_id, scrapeVars, matchVars,
                   prior_snapshots, db_item, api_data>>

\* update_base_items_batch on the patch, the store answering 200 or 204: the
\* projection is what the store then holds
StorePatch ==
    /\ pc = "reconciled"
    /\ update # None
    /\ db_item' = ApplyPatch(db_item, update[1])
    /\ pc' = "patched"
    /\ UNCHANGED <<envVars, storeVars, rc, stats, loadVars,
                   db_items_by_offer_id, scrapeVars, matchVars,
                   prior_snapshots, api_data, snapshot, update>>

\* the same PATCH request reaching the store a second time
StorePatchAgain ==
    /\ pc = "patched"
    /\ db_item' = ApplyPatch(db_item, update[1])
    /\ pc' = "repatched"
    /\ UNCHANGED <<envVars, storeVars, rc, stats, loadVars,
                   db_items_by_offer_id, scrapeVars, matchVars,
                   prior_snapshots, api_data, snapshot, update>>

\* the next cycle, at a later instant: get_all_active_items selects the
\* patched projection if it is still active and not closed, the marketplace
\* lists the same live record, and _process_matches reconciles the two
NextCycle ==
    /\ pc = "patched"
    /\ IsSelected(db_item)
    /\ \E later \in clock .. MaxClock + 2 :
          /\ clock' = later
          /\ snapshot' = CreateSnapshot(db_item, api_data,
                                        TotalSnaps(db_item, store_monitoring), later)
          /\ update' = CreateUpdate(db_item, api_data, later)
    /\ pc' = "second"
    /\ UNCHANGED <<creds, storeVars, rc, stats, loadVars,
                   db_items_by_offer_id, scrapeVars, matchVars,
                   prior_snapshots, db_item, api_data>>

NextDerive ==
    \/ Reconcile
    \/ StorePatch
    \/ StorePatchAgain
    \/ NextCycle

SpecDerive == InitDerive /\ [][NextDerive]_vars

(***************************************************************************)
(* SpecScrape: _scrape_category on its own, for the last category.  The    *)
(* remote may fail enough fetches for max_errors failures in a row to      *)
(* follow a failure count that a page of offers has reset.  The loop is a  *)
(* `while True` of a running process: it keeps taking turns while it has   *)
(* not left the loop, whence the weak fairness of its turn.                *)
(***************************************************************************)
ScrapeFaultsAllowed == max_errors + MaxScrapeFaults

InitScrape ==
    /\ creds = TRUE
    /\ clock = 1
    /\ store_items = <<>>
    /\ store_monitoring = [i \in ItemIds |-> 0]
    /\ prior_snapshots = store_monitoring
    /\ scrape_budget = ScrapeFaultsAllowed
    /\ remote \in Remotes
    /\ InitProgram
    /\ category = NumCategories
    /\ pc = "scrape"
    /\ db_item = None /\ api_data = None /\ snapshot = None /\ update = None

NextScrape ==
    \/ ScrapeHttpError
    \/ ScrapeException
    \/ ScrapeEmptyPage
    \/ ScrapeOffers

SpecScrape == InitScrape /\ [][NextScrape]_vars /\ WF_vars(NextScrape)

(***************************************************************************)
(* Properties.                                                             *)
(***************************************************************************)
\* _process_matches has returned (run() goes on to return 0)
MatchesReturned == pc = "done" /\ rc = Some(0) /\ stats.items_scraped > 0

\* the snapshots assembled for the row of item id `id`
SnapshotsOf(id) ==
    {k \in 1 .. Len(assembled_snapshots) : assembled_snapshots[k].item_id = id}

\* C1: once the cycle is over, every loaded projection that carries all its
\* keys and whose offer id is a key of the live-record set has exactly one
\* snapshot assembled, and that snapshot was queued and handed to the sink.
C1_OneSnapshotPerMatchedProjection ==
    MatchesReturned =>
        \A i \in 1 .. Len(all_items) :
            (all_items[i].keys = AllKeys /\ all_items[i].offer_id \in DOMAIN all_offers)
            => /\ Cardinality(SnapshotsOf(all_items[i].id)) = 1
               /\ \E k \in 1 .. Len(sent_snapshots) :
                     sent_snapshots[k].item_id = all_items[i].id

\* C2: an assembled snapshot's total_snapshots_count is one more than the
\* number of snapshots the store held for its entity when the cycle began.
C2_SequenceNumberFollowsStore ==
    snapshot # None =>
        snapshot[1].total_snapshots_count
            = prior_snapshots[snapshot[1].item_id] + 1

\* C3: a run that lacks the store credentials, or whose load of the
\* projections met an HTTP error or an exception, ends with main() returning
\* a non-zero outcome.
C3_StartupFailureIsFatal ==
    (pc = "done" /\ (~creds \/ load_failed)) => (rc # None /\ rc[1] # 0)

\* C4: a step in which the store rejects a batch insert or a patch raises the
\* driver's error count.
C4_SinkFailureIsCounted ==
    [][sink_faults' > sink_faults => stats'.errors > stats.errors]_vars

\* C5: when _process_matches has returned, items_matched + items_not_matched
\* is the number of projections loaded from the store.
C5_EveryProjectionLookedUp ==
    MatchesReturned =>
        stats.items_matched + stats.items_not_matched = stats.items_in_db

\* C6: between the entities of a cycle neither the pending snapshots nor the
\* pending patches number more than the batch size.
C6_AccumulatorsBounded ==
    pc = "process" => (Len(snapshots) <= BatchSize /\ Len(updates) <= BatchSize)

\* C7: when _process_matches has returned, the snapshots handed to
\* insert_snapshots_batch, flush after flush, are exactly the snapshots
\* assembled, each once and in order, and likewise the patches handed to
\* update_base_items_batch.
C7_EverythingFlushedOnce ==
    MatchesReturned =>
        (sent_snapshots = assembled_snapshots /\ sent_updates = assembled_updates)

\* C7's case: a full batch was flushed inside the loop and a final partial
\* batch of one snapshot after it.
C7_Witness ==
    /\ MatchesReturned
    /\ Len(assembled_snapshots) = BatchSize + 1
    /\ Len(snapshots) = 1
    /\ Len(sent_snapshots) = BatchSize + 1

\* C8: a run that had its credentials never ends with a non-zero outcome:
\* no failure on one entity aborts it.
C8_RecordFailureNeverAborts ==
    (pc = "done" /\ creds) => rc = Some(0)

\* C9: in an assembled snapshot bid_velocity is undefined when the elapsed
\* time is undefined, zero or negative or bid_count_change is not positive;
\* visit_velocity and popularity_velocity are undefined when the elapsed time
\* is undefined, zero or negative or visit_increment is not positive; and
\* popularity_velocity equals visit_velocity.
C9_VelocityGating ==
    snapshot # None =>
        LET s == snapshot[1]
            h == s.hours_since_last_snapshot
            no_time == h = None \/ h[1] <= 0
        IN  /\ (no_time \/ s.bid_count_change <= 0) => s.bid_velocity = None
            /\ (no_time \/ s.visit_increment <= 0) =>
                  (s.visit_velocity = None /\ s.popularity_velocity = None)
            /\ s.popularity_velocity = s.visit_velocity

\* C9's case: the projection was refreshed one tick ago and the bids went up
\* since, but the elapsed time rounds to 0.0 hours: there is no bid velocity.
C9_Witness ==
    /\ snapshot # None
    /\ snapshot[1].hours_since_last_snapshot = Some(0)
    /\ clock > db_item.last_scraped_at.t
    /\ snapshot[1].bid_count_change > 0
    /\ snapshot[1].bid_velocity = None

\* C10: every assembled snapshot and every built patch has
\* is_active = (not is_closed) and (not is_sold), on its own values.
C10_IsActiveDerived ==
    /\ snapshot # None =>
          snapshot[1].is_active = (~snapshot[1].is_closed /\ ~snapshot[1].is_sold)
    /\ update # None =>
          update[1].is_active = (~update[1].is_closed /\ ~update[1].is_sold)

\* C10's case: isClosed is absent and isSold is the localized token "Sim";
\* snapshot and patch are both inactive.
C10_Witness ==
    /\ snapshot # None /\ update # None
    /\ api_data.isClosed = JNull /\ api_data.isSold = JStr("Sim")
    /\ ~snapshot[1].is_closed /\ snapshot[1].is_sold /\ ~snapshot[1].is_active
    /\ ~update[1].is_closed /\ update[1].is_sold /\ ~update[1].is_active

\* C11: in the snapshot assembled for a pair, bid_status_changed is true
\* exactly when the has_bids coerced from the live record differs from the
\* projection's has_bids, an undefined projection value counting as false.
C11_BidStatusChangedIffFlip ==
    (pc = "reconciled" /\ snapshot # None) =>
        /\ snapshot[1].has_bids = safe_bool(api_data.hasBids)
        /\ snapshot[1].bid_status_changed
              = (safe_bool(api_data.hasBids)
                    # (IF db_item.has_bids = None THEN FALSE ELSE db_item.has_bids[1]))

\* C11's case: the projection had bids and the live record's hasBids is the
\* token "nao", which is coerced to false: the flag is raised.
C11_Witness ==
    /\ pc = "reconciled" /\ snapshot # None
    /\ db_item.has_bids = Some(TRUE)
    /\ api_data.hasBids = JStr("nao")
    /\ ~snapshot[1].has_bids
    /\ snapshot[1].bid_status_changed

\* C12: a PATCH applied to a projection that the same PATCH was already
\* applied to leaves the projection as it is; and the patch is built from the
\* live record and the refresh instant alone, whatever the projection's
\* columns hold.
C12_PatchIsIdempotent ==
    [][(pc = "patched" /\ pc' = "repatched") =>
          /\ db_item' = db_item
          /\ update = CreateUpdate([BaseRow EXCEPT !.keys = db_item.keys,
                                                   !.id = db_item.id],
                                   api_data, clock)]_vars

\* C12's case: a patch carrying two bids was applied twice to a projection
\* that had none or one; the projection holds two bids.
C12_Witness ==
    /\ pc = "repatched"
    /\ update[1].total_bids = 2
    /\ db_item.total_bids = Some(2)
    /\ db_item.last_scraped_at = LSTime(clock)

\* C15: the snapshot of a second cycle, which met the projection as the
\* first cycle's patch left it and the same live record, has all three
\* deltas at zero, no velocity, and no change flag raised.
C15_SecondCycleIsQuiet ==
    (pc = "second" /\ snapshot # None) =>
        /\ snapshot[1].bid_count_change = 0
        /\ snapshot[1].bidder_count_change = 0
        /\ snapshot[1].visit_increment = 0
        /\ snapshot[1].bid_velocity = None
        /\ snapshot[1].visit_velocity = None
        /\ snapshot[1].popularity_velocity = None
        /\ ~snapshot[1].bid_status_changed
        /\ ~snapshot[1].status_changed
        /\ ~snapshot[1].winner_changed

\* C15's case: the live record has a leader the projection did not know
\* before the first cycle; the second cycle, a positive time later, finds the
\* leader unchanged.
C15_Witness ==
    /\ pc = "second" /\ snapshot # None
    /\ snapshot[1].current_winner_id = Some(2)
    /\ db_item.current_winner_id = Some(2)
    /\ snapshot[1].hours_since_last_snapshot # None
    /\ snapshot[1].hours_since_last_snapshot[1] > 0
    /\ ~snapshot[1].winner_changed

\* the projection _process_matches turns to next, and its key in the index
NextKey == db_items_by_offer_id[processed + 1][1]

NextItem == db_items_by_offer_id[processed + 1][2]

AtEntity == pc = "process" /\ processed < Len(db_items_by_offer_id)

\* C13: handling a projection whose offer id is not a key of the live-record
\* set adds one to items_not_matched and changes no other counter, neither
\* accumulator, nothing handed to the store and nothing in the store.
C13_UnmatchedFrame ==
    [][(AtEntity /\ NextKey \notin DOMAIN all_offers) =>
          /\ stats' = [stats EXCEPT !.items_not_matched = @ + 1]
          /\ UNCHANGED <<snapshots, updates, assembled_snapshots,
                         assembled_updates, sent_snapshots, sent_updates,
                         store_items, store_monitoring, sink_faults>>]_vars

\* C13's case: an unmatched projection was handled while a snapshot and a
\* patch of an earlier matched pair were pending; they still are.
C13_Witness ==
    /\ pc = "process"
    /\ stats.items_not_matched = 1 /\ stats.items_matched = 1
    /\ db_items_by_offer_id[processed][1] \notin DOMAIN all_offers
    /\ Len(snapshots) = 1 /\ Len(updates) = 1
    /\ sent_snapshots = <<>> /\ sent_updates = <<>>

InsertRejected ==
    sent_snapshots' # sent_snapshots /\ store_monitoring' = store_monitoring

\* the snapshot a later cycle would assemble for a stored row against the
\* live record it was matched with; None where the load no longer selects
\* the row or the assembly raises
LaterSnapshot(row) ==
    IF IsSelected(row) /\ row.offer_id \in DOMAIN all_offers
    THEN CreateSnapshot(row, all_offers[row.offer_id], 0, clock)
    ELSE None

\* C16: a flush whose snapshot insert was rejected leaves snapshots_created
\* as it was and still hands every patch of the batch to the store; where
\* that insert was the flush's only failed write, each patch's projection in
\* the store holds the patch's values, and the snapshot a later cycle would
\* assemble for it raises no change flag.
C16_PatchesSentWhateverTheInsert ==
    [][InsertRejected =>
          /\ stats'.snapshots_created = stats.snapshots_created
          /\ sent_updates' = assembled_updates'
          /\ sink_faults' = sink_faults + 1 =>
                \A k \in Len(sent_updates) + 1 .. Len(sent_updates') :
                   \E i \in 1 .. Len(store_items') :
                      /\ store_items'[i].id = sent_updates'[k].id
                      /\ store_items'[i] = ApplyPatch(store_items[i], sent_updates'[k])
                      /\ store_items'[i].last_scraped_at
                            = sent_updates'[k].last_scraped_at
                      /\ LaterSnapshot(store_items'[i]) # None =>
                            /\ ~LaterSnapshot(store_items'[i])[1].bid_status_changed
                            /\ ~LaterSnapshot(store_items'[i])[1].status_changed
                            /\ ~LaterSnapshot(store_items'[i])[1].winner_changed]_vars

\* C16's case: the only insert of the cycle was rejected, losing a snapshot
\* that reported new bids, and the projection in the store has the bids.
C16_Witness ==
    /\ sink_faults = 1
    /\ stats.snapshots_created = 0
    /\ sent_snapshots # <<>>
    /\ sent_snapshots[1].bid_status_changed
    /\ stats.items_updated = Len(sent_updates)
    /\ \E i \in 1 .. Len(store_items) :
          /\ store_items[i].id = sent_snapshots[1].item_id
          /\ store_items[i].has_bids = Some(TRUE)
          /\ store_items[i].last_scraped_at = LSTime(clock)

\* a turn of the paging loop whose fetch failed
FetchFailed == pc = "scrape" /\ scrape_budget' < scrape_budget

\* the paging loop of the category has been left
LoopLeft == pc' = "fetched" \/ category' # category

\* The turns of the paging loop: a failed fetch that is the third in a row
\* ends the loop; an earlier one adds one to the failure count and moves to
\* the next page, keeping the offers; a page of offers after which the loop
\* goes on leaves the failure count at 0.
PagingLoopTurns ==
    [][/\ FetchFailed =>
             IF consecutive_errors + 1 >= 3
             THEN LoopLeft
             ELSE /\ ~LoopLeft
                  /\ consecutive_errors' = consecutive_errors + 1
                  /\ page_num' = page_num + 1
                  /\ offers' = offers
       /\ (pc = "scrape" /\ ~FetchFailed /\ ~LoopLeft) => consecutive_errors' = 0
      ]_vars

\* Against a remote whose pages report their own offset the loop is left.
ScrapeLoopEndsWhenPaged == PagingLoopTurns /\ (remote = "paged" => <>(pc = "fetched"))

\* C17: the turns of the paging loop are as PagingLoopTurns says, and the
\* loop is eventually left (every remote of the model reports a finite total).
C17_PagingLoopEnds == PagingLoopTurns /\ <>(pc = "fetched")

====
